---- MODULE Spec2Model ----
(***************************************************************************)
(* A model of src/winrtble/ble/characteristic.rs: BLECharacteristic, the   *)
(* per-characteristic GATT client of the WinRT backend.  The platform      *)
(* (GattCharacteristic, DataReader/DataWriter, the remote peer) is the     *)
(* environment: every platform call may succeed or fail, and the platform  *)
(* raises ValueChanged events on its own threads at any time.              *)
(***************************************************************************)
EXTENDS Integers, Sequences, FiniteSets

\* ---------------------------------------------------------------- bounds
\* Byte sequences have at most MaxLen elements, and a run makes at most
\* MaxSubscribes calls of subscribe.
MaxLen == 1
MaxSubscribes == 2
\* The threads that share the client in SpecThreads.
NumThreads == 2

VARIABLES
    alive,         \* the BLECharacteristic has not been dropped yet
    notify_token,  \* Option<EventRegistrationToken>: {} is None, {t} is Some(t)
    handlers,      \* platform: the value-changed handlers registered, [token, cb]
    next_token,    \* platform: the next EventRegistrationToken it hands out
    subscribes,    \* number of subscribe calls so far; call n owns callback n
    cccd,          \* peer: Client Characteristic Configuration Descriptor value
    call,          \* the call in progress, or the call that returned last
    prev,          \* what the call before `call` returned
    event,         \* the ValueChanged event just raised and the callbacks it invoked
    quiet,         \* an unsubscribe has returned Ok and no subscribe was called since
    threads        \* SpecThreads: where each thread is in the call it makes

vars == <<alive, notify_token, handlers, next_token, subscribes, cccd, call,
          prev, event, quiet, threads>>

\* ------------------------------------------------------------ data types
\* u8.  The code never looks at the value of a byte: the least and the
\* greatest value stand for all of them.
Bytes == {0, 255}

ByteSeqs == UNION {[1..n -> Bytes] : n \in 0..MaxLen}

WriteTypes == {"WithoutResponse", "WithResponse"}

\* GattCommunicationStatus
NonSuccess == {"Unreachable", "ProtocolError", "AccessDenied"}

GattCommunicationStatus == {"Success"} \cup NonSuccess

\* What waiting on an asynchronous platform operation (.get()?) can yield:
\* an error of the call itself, or a completed operation with a status.
AsyncOutcomes == {"GetError"} \cup GattCommunicationStatus

\* (mutant of Into) the two arms of the match exchanged.
IntoSwapped(write_type) ==
    CASE write_type = "WithoutResponse" -> "WriteWithResponse"
      [] write_type = "WithResponse" -> "WriteWithoutResponse"

\* impl Into<GattWriteOption> for WriteType
Into(write_type) ==
    CASE write_type = "WithoutResponse" -> "WriteWithoutResponse"
      [] write_type = "WithResponse" -> "WriteWithResponse"

\* DataWriter::write_bytes then detach_buffer: the buffer holds the bytes
\* written to the (new, empty) writer, in order.
DetachBuffer(data) == <<>> \o data

\* (mutant of ReadBytes) read_bytes left out: the vector keeps its zeroes.
ReadBytesUnfilled(buffer) == [i \in 1..Len(buffer) |-> 0]

\* DataReader::from_buffer, unconsumed_buffer_length, vec![0u8; len] and
\* read_bytes(&mut input[0..len]): a vector of len zeroes, overwritten by
\* the first len bytes of the buffer.
ReadBytes(buffer) ==
    LET len == Len(buffer)
    IN  [i \in 1..len |-> buffer[i]]

\* (mutant of StatusResult) the status is not looked at.
StatusIgnored(status) == "Ok"

\* The comparison of a communication status with Success that ends
\* write_value, read_value, subscribe and unsubscribe.
StatusResult(status) == IF status = "Success" THEN "Ok" ELSE "Err"

\* The result of waiting on the asynchronous operation: `.get()?` returns
\* the error of the wait, otherwise the status decides.
AwaitResult(outcome) ==
    IF outcome = "GetError" THEN "Err" ELSE StatusResult(outcome)

\* ------------------------------------------------------------ call record
\* One record per call of the API: what it was given, what it asked of the
\* platform, and what it returned.
Call(op) ==
    [op |-> op,                 \* new, write_value, read_value, subscribe, unsubscribe, drop
     pc |-> "returned",         \* awaiting: suspended in .get() on the platform operation
     result |-> "Ok",           \* Ok, Err, Panic; Unit for new and drop
     value |-> <<>>,            \* read_value: the bytes returned
     data |-> <<>>,             \* write_value: the data argument
     write_type |-> "-",        \* write_value: the write_type argument
     token_before |-> {},       \* notify_token when the call started
     register |-> "-",          \* value_changed(): "-" not called, Ok, Err
     remove |-> "-",            \* remove_value_changed(): "-" not called, Ok, Err
     issued |-> "-",            \* the asynchronous operation issued: write, read, cccd
     buffer |-> <<>>,           \* write: the buffer handed to the platform
     option |-> "-",            \* write: the GattWriteOption handed over
     config |-> "-",            \* cccd: the configuration value passed to the write
     status |-> "-"]            \* the status the operation completed with

\* The call failed in its descriptor write: in starting it, in waiting for
\* it, or by its status.  (The only other failure of subscribe and of
\* unsubscribe is the one of the handler's registration or removal.)
WriteFailed(c) == c.result = "Err" /\ c.register # "Err" /\ c.remove # "Err"

\* What a returned call leaves for the next call to be compared with:
\* whether it was an unsubscribe, and then its result and whether its
\* descriptor write failed.
Summary(c) ==
    IF c.op = "unsubscribe"
    THEN [op |-> c.op, result |-> c.result, cccd_failed |-> WriteFailed(c)]
    ELSE [op |-> "other", result |-> "-", cccd_failed |-> FALSE]

\* The threads, and a thread that makes no call.
Threads == 1..NumThreads

NoThreadCall == [op |-> "-", pc |-> "idle", token |-> {}, cb |-> 0, config |-> "-"]

Event(kind, payload, invoked) ==
    [kind |-> kind, payload |-> payload, invoked |-> invoked]

\* No event was raised since the program's last step.
NoEvent == Event("none", <<>>, <<>>)

\* ------------------------------------------------------------------ Init
\* BLECharacteristic::new: wraps the handle, notify_token: None.
Init ==
    /\ alive = TRUE
    /\ notify_token = {}
    /\ handlers = {}
    /\ next_token = 1
    /\ subscribes = 0
    /\ cccd = "None"
    /\ call = [Call("new") EXCEPT !.result = "Unit"]
    /\ prev = Summary(Call("new"))
    /\ event = NoEvent
    /\ quiet = FALSE
    /\ threads = [t \in Threads |-> NoThreadCall]

\* A call can start when the object lives and no call is in progress.
Idle == alive /\ call.pc = "returned"

\* A call starts: the call before it becomes the previous call.
Start(c) ==
    /\ call' = c
    /\ prev' = Summary(call)

\* The call in progress resumes from .get() and returns.
Finish(c) ==
    /\ call' = c
    /\ UNCHANGED prev

Awaiting(op) == alive /\ call.op = op /\ call.pc = "awaiting"

\* ----------------------------------------------------------- write_value
\* The steps of write_value that can fail before the operation is awaited.
WriteFaults ==
    {"none", "new", "write_bytes", "detach_buffer", "write_value_with_option_async"}

\* DataWriter::new().unwrap() panics; every other failure is returned by `?`.
WriteFaultResult(fault) == IF fault = "new" THEN "Panic" ELSE "Err"

WriteValueCall ==
    /\ Idle
    /\ \E data \in ByteSeqs, write_type \in WriteTypes, fault \in WriteFaults :
         LET c == [Call("write_value") EXCEPT
                     !.data = data, !.write_type = write_type,
                     !.token_before = notify_token]
         IN  IF fault # "none"
             THEN Start([c EXCEPT !.result = WriteFaultResult(fault)])
             ELSE Start([c EXCEPT !.pc = "awaiting", !.result = "-",
                                  !.issued = "write",
                                  !.buffer = DetachBuffer(data),
                                  !.option = Into(write_type)])
    /\ event' = NoEvent
    /\ UNCHANGED threads
    /\ UNCHANGED <<alive, notify_token, handlers, next_token, subscribes, cccd,
                   quiet>>

\* (mutant of WriteValueReturn) a failed write drops the subscription.
WriteValueReturnResets ==
    /\ Awaiting("write_value")
    /\ \E outcome \in AsyncOutcomes :
         /\ Finish([call EXCEPT !.pc = "returned",
                                !.status = IF outcome = "GetError" THEN "-" ELSE outcome,
                                !.result = AwaitResult(outcome)])
         /\ notify_token' = IF AwaitResult(outcome) = "Err" THEN {} ELSE notify_token
    /\ event' = NoEvent
    /\ UNCHANGED threads
    /\ UNCHANGED <<alive, handlers, next_token, subscribes, cccd, quiet>>

WriteValueReturn ==
    /\ Awaiting("write_value")
    /\ \E outcome \in AsyncOutcomes :
         Finish([call EXCEPT !.pc = "returned",
                             !.status = IF outcome = "GetError" THEN "-" ELSE outcome,
                             !.result = AwaitResult(outcome)])
    /\ event' = NoEvent
    /\ UNCHANGED threads
    /\ UNCHANGED <<alive, notify_token, handlers, next_token, subscribes, cccd,
                   quiet>>

\* ------------------------------------------------------------ read_value
\* The steps of read_value after the wait that can fail with `?`.
ReadFaults ==
    {"none", "status", "value", "from_buffer", "unconsumed_buffer_length",
     "read_bytes"}

ReadValueCall ==
    /\ Idle
    /\ \E asyncOk \in BOOLEAN :
         LET c == [Call("read_value") EXCEPT !.token_before = notify_token]
         IN  IF asyncOk
             THEN Start([c EXCEPT !.pc = "awaiting", !.result = "-",
                                  !.issued = "read"])
             ELSE Start([c EXCEPT !.result = "Err"])
    /\ event' = NoEvent
    /\ UNCHANGED threads
    /\ UNCHANGED <<alive, notify_token, handlers, next_token, subscribes, cccd,
                   quiet>>

\* What read_value returns once the read completed with `status` and the
\* platform holds `buffer`: <<result, value>>.
ReadValueResult(status, buffer, fault) ==
    IF fault = "status" THEN <<"Err", <<>>>>
    ELSE IF status = "Success"
         THEN IF fault = "none" THEN <<"Ok", ReadBytes(buffer)>>
                                ELSE <<"Err", <<>>>>
         ELSE <<"Err", <<>>>>

\* (mutant of ReadValueReturn) read_value waits for a value-changed event
\* instead of waiting for the read it issued.
ReadValueReturnWaitsForEvent ==
    /\ Awaiting("read_value")
    /\ event.kind = "payload"
    /\ Finish([call EXCEPT !.pc = "returned", !.status = "Success",
                           !.buffer = event.payload, !.result = "Ok",
                           !.value = ReadBytes(event.payload)])
    /\ event' = NoEvent
    /\ UNCHANGED threads
    /\ UNCHANGED <<alive, notify_token, handlers, next_token, subscribes, cccd,
                   quiet>>

ReadValueReturn ==
    /\ Awaiting("read_value")
    /\ \E outcome \in AsyncOutcomes :
       \E buffer \in IF outcome = "Success" THEN ByteSeqs ELSE {<<>>} :
       \E fault \in IF outcome = "GetError" THEN {"none"} ELSE ReadFaults :
         LET r == IF outcome = "GetError" THEN <<"Err", <<>>>>
                  ELSE ReadValueResult(outcome, buffer, fault)
         IN  Finish([call EXCEPT !.pc = "returned",
                                 !.status = IF outcome = "GetError" THEN "-" ELSE outcome,
                                 !.buffer = IF outcome = "Success" THEN buffer ELSE <<>>,
                                 !.result = r[1],
                                 !.value = r[2]])
    /\ event' = NoEvent
    /\ UNCHANGED threads
    /\ UNCHANGED <<alive, notify_token, handlers, next_token, subscribes, cccd,
                   quiet>>

\* ------------------------------------------------------- platform events
\* GattCharacteristic::remove_value_changed(token), when it succeeds: the
\* handler registered under the token is gone.  A failed call removes
\* nothing.
RemoveValueChanged(hs, token) == {h \in hs : h.token \notin token}

\* The closure subscribe builds around on_value_changed (callback cb): with
\* args present and the value readable it calls the callback once with the
\* bytes read; with no args, or a failing read, it calls nothing.
ValueHandler(cb, kind, payload) ==
    IF kind = "payload"
    THEN <<[cb |-> cb, bytes |-> ReadBytes(payload)]>>
    ELSE <<>>

\* The platform raises the event on every registered handler, in the order
\* of registration.
RECURSIVE Dispatch(_, _, _)
Dispatch(hs, kind, payload) ==
    IF hs = {} THEN <<>>
    ELSE LET h == CHOOSE x \in hs : \A y \in hs : x.token <= y.token
         IN  ValueHandler(h.cb, kind, payload)
               \o Dispatch(hs \ {h}, kind, payload)

\* The shapes of a ValueChanged event: args is None, args holds a value
\* whose buffer cannot be read, or args holds a value with a payload.
EventKinds == {"noargs", "unreadable", "payload"}

\* The platform raises ValueChanged, on its own thread, at any time: while
\* a call is suspended, between calls, and after the object was dropped.
ValueChanged ==
    /\ \E kind \in EventKinds, payload \in ByteSeqs :
         /\ kind # "payload" => payload = <<>>
         /\ event' = Event(kind, payload, Dispatch(handlers, kind, payload))
    /\ UNCHANGED <<alive, notify_token, handlers, next_token, subscribes, cccd,
                   call, prev, quiet, threads>>

\* -------------------------------------------------------------- subscribe
\* (mutant of SubscribeCall) the descriptor write is issued before the
\* handler is registered.
SubscribeCallWritesFirst ==
    /\ Idle
    /\ subscribes < MaxSubscribes
    /\ subscribes' = subscribes + 1
    /\ quiet' = FALSE
    /\ Start([Call("subscribe") EXCEPT !.token_before = notify_token,
                                       !.pc = "awaiting", !.result = "-",
                                       !.issued = "cccd", !.config = "Notify"])
    /\ event' = NoEvent
    /\ UNCHANGED threads
    /\ UNCHANGED <<alive, cccd, notify_token, handlers, next_token>>

\* (mutant of SubscribeCall) a rejected registration clears the token and
\* the descriptor write is issued all the same.
SubscribeCallIgnoresRejection ==
    /\ Idle
    /\ subscribes < MaxSubscribes
    /\ subscribes' = subscribes + 1
    /\ quiet' = FALSE
    /\ \E regOk \in BOOLEAN :
         /\ handlers' = IF regOk
                        THEN handlers \cup {[token |-> next_token, cb |-> subscribes + 1]}
                        ELSE handlers
         /\ next_token' = IF regOk THEN next_token + 1 ELSE next_token
         /\ notify_token' = IF regOk THEN {next_token} ELSE {}
         /\ Start([Call("subscribe") EXCEPT
                     !.token_before = notify_token,
                     !.register = IF regOk THEN "Ok" ELSE "Err",
                     !.pc = "awaiting", !.result = "-",
                     !.issued = "cccd", !.config = "Notify"])
    /\ event' = NoEvent
    /\ UNCHANGED threads
    /\ UNCHANGED <<alive, cccd>>

SubscribeCall ==
    /\ Idle
    /\ subscribes < MaxSubscribes
    /\ subscribes' = subscribes + 1
    /\ quiet' = FALSE
    /\ \E regOk \in BOOLEAN, asyncOk \in BOOLEAN :
         LET c == [Call("subscribe") EXCEPT
                     !.token_before = notify_token,
                     !.register = IF regOk THEN "Ok" ELSE "Err"]
         IN  IF ~regOk
             THEN \* value_changed(&value_handler)? failed
                  /\ Start([c EXCEPT !.result = "Err"])
                  /\ UNCHANGED <<notify_token, handlers, next_token>>
             ELSE /\ handlers' = handlers \cup
                        {[token |-> next_token, cb |-> subscribes + 1]}
                  /\ next_token' = next_token + 1
                  /\ notify_token' = {next_token}
                  /\ IF asyncOk
                     THEN Start([c EXCEPT !.pc = "awaiting", !.result = "-",
                                          !.issued = "cccd",
                                          !.config = "Notify"])
                     ELSE Start([c EXCEPT !.result = "Err",
                                          !.config = "Notify"])
    /\ event' = NoEvent
    /\ UNCHANGED threads
    /\ UNCHANGED <<alive, cccd>>

\* The peer's descriptor after a descriptor write of `config` that ended
\* with `outcome`: only a write that completed with Success changes it.
PeerConfig(old, config, outcome) == IF outcome = "Success" THEN config ELSE old

\* (mutant of SubscribeReturn) a failed descriptor write rolls the
\* registration back.
SubscribeReturnRollsBack ==
    /\ Awaiting("subscribe")
    /\ \E outcome \in AsyncOutcomes :
         /\ cccd' = PeerConfig(cccd, call.config, outcome)
         /\ Finish([call EXCEPT !.pc = "returned",
                                !.status = IF outcome = "GetError" THEN "-" ELSE outcome,
                                !.result = AwaitResult(outcome)])
         /\ IF AwaitResult(outcome) = "Err"
            THEN /\ handlers' = RemoveValueChanged(handlers, notify_token)
                 /\ notify_token' = {}
            ELSE UNCHANGED <<handlers, notify_token>>
    /\ event' = NoEvent
    /\ UNCHANGED threads
    /\ UNCHANGED <<alive, next_token, subscribes, quiet>>

SubscribeReturn ==
    /\ Awaiting("subscribe")
    /\ \E outcome \in AsyncOutcomes :
         /\ cccd' = PeerConfig(cccd, call.config, outcome)
         /\ Finish([call EXCEPT !.pc = "returned",
                                !.status = IF outcome = "GetError" THEN "-" ELSE outcome,
                                !.result = AwaitResult(outcome)])
    /\ event' = NoEvent
    /\ UNCHANGED threads
    /\ UNCHANGED <<alive, notify_token, handlers, next_token, subscribes, quiet>>

\* ------------------------------------------------------------ unsubscribe
\* `if let Some(token) = &self.notify_token { remove_value_changed(token)?; }`
\* returns from unsubscribe when the removal fails.
UnsubscribeGoesOn(token, removeOk) == token = {} \/ removeOk

\* (mutant of UnsubscribeCall) with no token there is nothing to do:
\* unsubscribe returns Ok at once.
UnsubscribeCallSkipsWrite ==
    /\ Idle
    /\ \E removeOk \in BOOLEAN, asyncOk \in BOOLEAN :
         LET c == [Call("unsubscribe") EXCEPT
                     !.token_before = notify_token,
                     !.remove = IF notify_token = {} THEN "-"
                                ELSE IF removeOk THEN "Ok" ELSE "Err"]
         IN  /\ handlers' = IF notify_token # {} /\ removeOk
                            THEN RemoveValueChanged(handlers, notify_token)
                            ELSE handlers
             /\ IF notify_token = {}
                THEN /\ Start(c)
                     /\ UNCHANGED notify_token
                ELSE IF ~removeOk
                THEN /\ Start([c EXCEPT !.result = "Err"])
                     /\ UNCHANGED notify_token
                ELSE /\ notify_token' = {}
                     /\ IF asyncOk
                        THEN Start([c EXCEPT !.pc = "awaiting", !.result = "-",
                                             !.issued = "cccd",
                                             !.config = "None"])
                        ELSE Start([c EXCEPT !.result = "Err",
                                             !.config = "None"])
    /\ event' = NoEvent
    /\ UNCHANGED threads
    /\ UNCHANGED <<alive, next_token, subscribes, cccd, quiet>>

\* (mutant of UnsubscribeCall) `self.notify_token = None` left out.
UnsubscribeCallKeepsToken ==
    /\ Idle
    /\ \E removeOk \in BOOLEAN, asyncOk \in BOOLEAN :
         LET c == [Call("unsubscribe") EXCEPT
                     !.token_before = notify_token,
                     !.remove = IF notify_token = {} THEN "-"
                                ELSE IF removeOk THEN "Ok" ELSE "Err"]
         IN  /\ handlers' = IF notify_token # {} /\ removeOk
                            THEN RemoveValueChanged(handlers, notify_token)
                            ELSE handlers
             /\ IF ~UnsubscribeGoesOn(notify_token, removeOk)
                THEN Start([c EXCEPT !.result = "Err"])
                ELSE IF asyncOk
                     THEN Start([c EXCEPT !.pc = "awaiting", !.result = "-",
                                          !.issued = "cccd",
                                          !.config = "None"])
                     ELSE Start([c EXCEPT !.result = "Err",
                                          !.config = "None"])
    /\ event' = NoEvent
    /\ UNCHANGED threads
    /\ UNCHANGED <<alive, notify_token, next_token, subscribes, cccd, quiet>>

UnsubscribeCall ==
    /\ Idle
    /\ \E removeOk \in BOOLEAN, asyncOk \in BOOLEAN :
         LET c == [Call("unsubscribe") EXCEPT
                     !.token_before = notify_token,
                     !.remove = IF notify_token = {} THEN "-"
                                ELSE IF removeOk THEN "Ok" ELSE "Err"]
         IN  /\ handlers' = IF notify_token # {} /\ removeOk
                            THEN RemoveValueChanged(handlers, notify_token)
                            ELSE handlers
             /\ IF ~UnsubscribeGoesOn(notify_token, removeOk)
                THEN /\ Start([c EXCEPT !.result = "Err"])
                     /\ UNCHANGED notify_token
                ELSE /\ notify_token' = {}
                     /\ IF asyncOk
                        THEN Start([c EXCEPT !.pc = "awaiting", !.result = "-",
                                             !.issued = "cccd",
                                             !.config = "None"])
                        ELSE Start([c EXCEPT !.result = "Err",
                                             !.config = "None"])
    /\ event' = NoEvent
    /\ UNCHANGED threads
    /\ UNCHANGED <<alive, next_token, subscribes, cccd, quiet>>

UnsubscribeReturn ==
    /\ Awaiting("unsubscribe")
    /\ \E outcome \in AsyncOutcomes :
         /\ cccd' = PeerConfig(cccd, call.config, outcome)
         /\ quiet' = (AwaitResult(outcome) = "Ok")
         /\ Finish([call EXCEPT !.pc = "returned",
                                !.status = IF outcome = "GetError" THEN "-" ELSE outcome,
                                !.result = AwaitResult(outcome)])
    /\ event' = NoEvent
    /\ UNCHANGED threads
    /\ UNCHANGED <<alive, notify_token, handlers, next_token, subscribes>>

\* ------------------------------------------------------------------- drop
\* `if let Some(token) = &self.notify_token`: drop calls the removal.
DropAttempts(token) == token # {}

\* (mutant of DropResult) the error of the removal leaves drop.
DropPropagates(remove) == IF remove = "Err" THEN "Panic" ELSE "Unit"

\* drop returns (); an error of the removal is logged by debug!.
DropResult(remove) == "Unit"

\* (mutant of Drop) drop also writes None to the descriptor.
DropWritesDescriptor ==
    /\ Idle
    /\ alive' = FALSE
    /\ cccd' = "None"
    /\ \E removeOk \in BOOLEAN :
         LET remove == IF ~DropAttempts(notify_token) THEN "-"
                       ELSE IF removeOk THEN "Ok" ELSE "Err"
         IN  /\ handlers' = IF remove = "Ok"
                            THEN RemoveValueChanged(handlers, notify_token)
                            ELSE handlers
             /\ Start([Call("drop") EXCEPT !.token_before = notify_token,
                                           !.remove = remove,
                                           !.result = DropResult(remove)])
    /\ event' = NoEvent
    /\ UNCHANGED threads
    /\ UNCHANGED <<notify_token, next_token, subscribes, quiet>>

Drop ==
    /\ Idle
    /\ alive' = FALSE
    /\ \E removeOk \in BOOLEAN :
         LET remove == IF ~DropAttempts(notify_token) THEN "-"
                       ELSE IF removeOk THEN "Ok" ELSE "Err"
         IN  /\ handlers' = IF remove = "Ok"
                            THEN RemoveValueChanged(handlers, notify_token)
                            ELSE handlers
             /\ Start([Call("drop") EXCEPT !.token_before = notify_token,
                                           !.remove = remove,
                                           !.result = DropResult(remove)])
    /\ event' = NoEvent
    /\ UNCHANGED threads
    /\ UNCHANGED <<notify_token, next_token, subscribes, cccd, quiet>>

\* ------------------------------------------------------------------- Next
Next ==
    \/ WriteValueCall
    \/ WriteValueReturn
    \/ ReadValueCall
    \/ ReadValueReturn
    \/ SubscribeCall
    \/ SubscribeReturn
    \/ UnsubscribeCall
    \/ UnsubscribeReturn
    \/ Drop
    \/ ValueChanged

Spec == Init /\ [][Next]_vars

\* Every asynchronous operation the platform was asked for completes in
\* the end: the call suspended in .get() on it resumes.
PlatformCompletes ==
    /\ WF_vars(WriteValueReturn)
    /\ WF_vars(ReadValueReturn)
    /\ WF_vars(SubscribeReturn)
    /\ WF_vars(UnsubscribeReturn)

SpecFair == Spec /\ PlatformCompletes

TypeOK ==
    /\ alive \in BOOLEAN
    /\ notify_token \subseteq 1..MaxSubscribes
    /\ call.value \in ByteSeqs
    /\ Cardinality(notify_token) <= 1
    /\ next_token \in 1..(MaxSubscribes + 1)
    /\ subscribes \in 0..MaxSubscribes
    /\ cccd \in {"None", "Notify"}
    /\ quiet \in BOOLEAN

\* ---------------------------------------------------------------- threads
\* SpecThreads: the client shared by several threads, each call taken
\* step by step.  subscribe, unsubscribe and drop take `&mut self`, the
\* exclusive borrow; write_value and read_value take `&self`, the shared
\* one.  A thread inside a call holds the borrow of its receiver until the
\* call returns.
MutOps == {"subscribe", "unsubscribe", "drop"}

SharedOps == {"write_value", "read_value"}

Inside(t) == threads[t].pc \notin {"idle", "calling"}

\* (mutant of CanBorrowMut) the receiver is `&self`: a shared borrow, which
\* only an exclusive borrow of another thread excludes.
BorrowsShared(t) ==
    \A u \in Threads \ {t} : Inside(u) => threads[u].op \notin MutOps

\* `&mut self`: the call is entered when no other thread holds a borrow.
CanBorrowMut(t) == \A u \in Threads \ {t} : ~Inside(u)

\* `&self`: the call is entered when no other thread holds `&mut self`.
CanBorrowShared(t) ==
    \A u \in Threads \ {t} : Inside(u) => threads[u].op \notin MutOps

ThreadFrame == UNCHANGED <<call, prev, event, quiet>>

Goto(t, pc) == threads' = [threads EXCEPT ![t].pc = pc]

ThreadReturns(t) == threads' = [threads EXCEPT ![t] = NoThreadCall]

\* A thread sets out to call an operation of the client.
ThreadCalls ==
    /\ alive
    /\ \E t \in Threads, op \in MutOps \cup SharedOps :
         /\ threads[t].pc = "idle"
         /\ threads' = [threads EXCEPT ![t] = [NoThreadCall EXCEPT
                                                !.op = op, !.pc = "calling"]]
    /\ UNCHANGED <<alive, notify_token, handlers, next_token, subscribes, cccd>>
    /\ ThreadFrame

\* The thread enters the call once the borrow of the receiver is its own.
ThreadEnters ==
    /\ alive
    /\ \E t \in Threads :
         /\ threads[t].pc = "calling"
         /\ IF threads[t].op \in MutOps THEN CanBorrowMut(t)
                                        ELSE CanBorrowShared(t)
         /\ threads[t].op = "subscribe" => subscribes < MaxSubscribes
         /\ subscribes' = IF threads[t].op = "subscribe" THEN subscribes + 1
                                                         ELSE subscribes
         /\ threads' = [threads EXCEPT
                ![t].pc = CASE threads[t].op = "subscribe" -> "value_changed"
                            [] threads[t].op \in {"unsubscribe", "drop"} -> "remove"
                            [] OTHER -> "issue",
                ![t].cb = IF threads[t].op = "subscribe" THEN subscribes + 1 ELSE 0,
                ![t].config = CASE threads[t].op = "subscribe" -> "Notify"
                                [] threads[t].op = "unsubscribe" -> "None"
                                [] OTHER -> "-"]
    /\ UNCHANGED <<alive, notify_token, handlers, next_token, cccd>>
    /\ ThreadFrame

\* subscribe: `let token = self.characteristic.value_changed(&value_handler)?;`
ThreadRegisters ==
    /\ \E t \in Threads, regOk \in BOOLEAN :
         /\ threads[t].pc = "value_changed"
         /\ IF regOk
            THEN /\ handlers' = handlers \cup
                       {[token |-> next_token, cb |-> threads[t].cb]}
                 /\ next_token' = next_token + 1
                 /\ threads' = [threads EXCEPT ![t].token = {next_token},
                                               ![t].pc = "store"]
            ELSE /\ ThreadReturns(t)
                 /\ UNCHANGED <<handlers, next_token>>
    /\ UNCHANGED <<alive, notify_token, subscribes, cccd>>
    /\ ThreadFrame

\* subscribe: `self.notify_token = Some(token);`
ThreadStoresToken ==
    /\ \E t \in Threads :
         /\ threads[t].pc = "store"
         /\ notify_token' = threads[t].token
         /\ Goto(t, "issue")
    /\ UNCHANGED <<alive, handlers, next_token, subscribes, cccd>>
    /\ ThreadFrame

\* unsubscribe and drop: `if let Some(token) = &self.notify_token` and the
\* call of remove_value_changed(token).  unsubscribe returns the error of
\* the removal; drop logs it and is done either way.
ThreadRemoves ==
    /\ \E t \in Threads, removeOk \in BOOLEAN :
         /\ threads[t].pc = "remove"
         /\ handlers' = IF notify_token # {} /\ removeOk
                        THEN RemoveValueChanged(handlers, notify_token)
                        ELSE handlers
         /\ IF threads[t].op = "drop"
            THEN /\ alive' = FALSE
                 /\ ThreadReturns(t)
            ELSE /\ UNCHANGED alive
                 /\ IF UnsubscribeGoesOn(notify_token, removeOk)
                    THEN threads' = [threads EXCEPT ![t].token = notify_token,
                                                    ![t].pc = "clear"]
                    ELSE ThreadReturns(t)
    /\ UNCHANGED <<notify_token, next_token, subscribes, cccd>>
    /\ ThreadFrame

\* unsubscribe: `self.notify_token = None;`
ThreadClearsToken ==
    /\ \E t \in Threads :
         /\ threads[t].pc = "clear"
         /\ notify_token' = {}
         /\ Goto(t, "issue")
    /\ UNCHANGED <<alive, handlers, next_token, subscribes, cccd>>
    /\ ThreadFrame

\* The call of the asynchronous operation: `..._async(..)?`.
ThreadIssues ==
    /\ \E t \in Threads, asyncOk \in BOOLEAN :
         /\ threads[t].pc = "issue"
         /\ IF asyncOk THEN Goto(t, "awaiting") ELSE ThreadReturns(t)
    /\ UNCHANGED <<alive, notify_token, handlers, next_token, subscribes, cccd>>
    /\ ThreadFrame

\* `.get()?` and the return of the call.
ThreadResumes ==
    /\ \E t \in Threads, outcome \in AsyncOutcomes :
         /\ threads[t].pc = "awaiting"
         /\ cccd' = IF threads[t].op \in SharedOps THEN cccd
                    ELSE PeerConfig(cccd, threads[t].config, outcome)
         /\ ThreadReturns(t)
    /\ UNCHANGED <<alive, notify_token, handlers, next_token, subscribes>>
    /\ ThreadFrame

NextThreads ==
    \/ ThreadCalls
    \/ ThreadEnters
    \/ ThreadRegisters
    \/ ThreadStoresToken
    \/ ThreadRemoves
    \/ ThreadClearsToken
    \/ ThreadIssues
    \/ ThreadResumes

SpecThreads == Init /\ [][NextThreads]_vars

\* ================================================================ claims
Returned(op) == call.op = op /\ call.pc = "returned"

\* C1: after any unsubscribe call returns, Ok or Err, also when the removal
\* of the event handler reports an error, notify_token is None.
C1_UnsubscribeLeavesNone == Returned("unsubscribe") => notify_token = {}

\* C2: in every reachable state notify_token is Some if and only if at
\* least one value-changed handler of this client is registered with the
\* platform.
C2_TokenIffRegistered == alive => ((notify_token # {}) <=> (handlers # {}))

\* C3: once an unsubscribe has returned Ok, a value-changed event raised
\* before any later subscribe invokes no callback.
C3_NoCallbackAfterUnsubscribe ==
    (quiet /\ event.kind # "none") => event.invoked = <<>>

\* C4: subscribing while a registration is held leaks nothing: at most one
\* handler of this client is registered, the one notify_token identifies.
C4_NoLeakedRegistration ==
    alive => /\ Cardinality(handlers) <= 1
             /\ \A h \in handlers : h.token \in notify_token

\* C5: a failed removal of the handler is never unsubscribe's failure:
\* unsubscribe still issues the descriptor write of None, and it returns
\* Err only when that write did not complete with Success.
C5_RemovalFailureNotReturned ==
    Returned("unsubscribe") =>
        /\ call.remove = "Err" => (call.issued = "cccd" /\ call.config = "None")
        /\ call.result = "Err" => (call.remove # "Err" /\ call.status # "Success")

\* C6: for write_value, read_value, subscribe and unsubscribe, a platform
\* operation that completes with a status other than Success makes the
\* call return Err, and the call returns Ok only when the status is Success.
C6_StatusDecidesResult ==
    (call.pc = "returned"
       /\ call.op \in {"write_value", "read_value", "subscribe", "unsubscribe"}) =>
        /\ call.status \in NonSuccess => call.result = "Err"
        /\ call.result = "Ok" => call.status = "Success"

C6_Witness ==
    /\ Returned("subscribe")
    /\ call.status = "ProtocolError"
    /\ call.result = "Err"

\* C7: unsubscribe twice in a row, no descriptor write failing: the second
\* call returns Ok, and notify_token is None after the first call and after
\* the second.
C7_UnsubscribeTwice ==
    (Returned("unsubscribe") /\ prev.op = "unsubscribe"
       /\ ~prev.cccd_failed /\ ~WriteFailed(call)) =>
        /\ call.result = "Ok"
        /\ call.token_before = {}
        /\ notify_token = {}

\* C8: drop calls the removal of the handler exactly when notify_token is
\* Some, and completes without an error whether the removal succeeds or
\* fails.
C8_DropBestEffort ==
    call.op = "drop" =>
        /\ (call.remove # "-") <=> (call.token_before # {})
        /\ call.result = "Unit"
        /\ call.pc = "returned"
        /\ ~alive

C8_Witness == call.op = "drop" /\ call.remove = "Err"

\* C9: after the drop of a subscribed client whose removal of the handler
\* succeeded, no value-changed event invokes a callback.
C9_NoCallbackAfterDrop ==
    (call.op = "drop" /\ call.token_before # {} /\ call.remove = "Ok"
       /\ event.kind # "none") => event.invoked = <<>>

\* The number of invocations of callback cb by the event just raised.
Invocations(cb) ==
    Cardinality({i \in 1..Len(event.invoked) : event.invoked[i].cb = cb})

\* C10: a value-changed event with payload P, the empty one included,
\* invokes the callback of every registration in place exactly once, with
\* bytes equal to P.
C10_CallbackOncePerEvent ==
    event.kind = "payload" =>
        \A h \in handlers :
            /\ Invocations(h.cb) = 1
            /\ \A i \in 1..Len(event.invoked) :
                   event.invoked[i].cb = h.cb =>
                       event.invoked[i].bytes = event.payload

C10_Witness ==
    /\ event.kind = "payload"
    /\ event.payload # <<>>
    /\ handlers # {}

\* The handler the subscribe call in `call` registered: the platform's
\* last token, and the callback of the last subscribe call.
ThisHandler == [token |-> next_token - 1, cb |-> subscribes]

\* C11: when subscribe registered the handler and the descriptor write of
\* Notify completes with a status other than Success, subscribe returns
\* Err and nothing is rolled back: notify_token stays Some and the handler
\* stays registered.
C11_NoRollback ==
    (Returned("subscribe") /\ call.register = "Ok" /\ call.status \in NonSuccess) =>
        /\ call.result = "Err"
        /\ notify_token = {ThisHandler.token}
        /\ ThisHandler \in handlers

C11_Witness ==
    /\ Returned("subscribe")
    /\ call.register = "Ok"
    /\ call.status = "Unreachable"
    /\ notify_token # {}

\* C12: for every write_value(data, write_type) the bytes handed to the
\* platform's write equal data, and the write option handed over is "with
\* response" exactly for WithResponse and "without response" exactly for
\* WithoutResponse.
C12_WriteHandsOverData ==
    (call.op = "write_value" /\ call.issued = "write") =>
        /\ call.buffer = call.data
        /\ (call.option = "WriteWithResponse") <=> (call.write_type = "WithResponse")
        /\ (call.option = "WriteWithoutResponse") <=> (call.write_type = "WithoutResponse")

C12_Witness ==
    /\ call.op = "write_value"
    /\ call.issued = "write"
    /\ call.data # <<>>
    /\ call.write_type = "WithResponse"

\* C13: in subscribe the handler is registered and its token stored before
\* the descriptor write of Notify is issued: while that write is in flight
\* and after it, the handler is registered under notify_token, and an
\* event with a payload raised then reaches the callback of this call.
C13_RegisteredBeforeWrite ==
    (call.op = "subscribe" /\ call.issued = "cccd") =>
        /\ call.config = "Notify"
        /\ call.register = "Ok"
        /\ notify_token = {ThisHandler.token}
        /\ ThisHandler \in handlers
        /\ event.kind = "payload" => Invocations(ThisHandler.cb) = 1

C13_Witness ==
    /\ Awaiting("subscribe")
    /\ event.kind = "payload"
    /\ Invocations(ThisHandler.cb) = 1

\* C14: unsubscribe called with notify_token None calls no removal of a
\* handler, still passes None to the descriptor write, and returns the
\* outcome of that write.
C14_UnsubscribeWithoutToken ==
    (call.op = "unsubscribe" /\ call.token_before = {}) =>
        /\ call.remove = "-"
        /\ call.config = "None"
        /\ call.pc = "awaiting" => call.issued = "cccd"
        /\ Returned("unsubscribe") =>
               /\ (call.result = "Ok") <=> (call.status = "Success")
               /\ call.result \in {"Ok", "Err"}
               /\ call.status # "-" => call.issued = "cccd"

C14_Witness ==
    /\ Returned("unsubscribe")
    /\ call.token_before = {}
    /\ call.status = "Success"
    /\ call.result = "Ok"

\* C15: drop issues no descriptor write: the peer's configuration value is
\* the same after the drop as before it, and stays so (a client dropped
\* after a successful subscribe leaves the peer at Notify).
C15_DropWritesNoDescriptor ==
    [][(~alive') => /\ cccd' = cccd
                    /\ call'.op = "drop"
                    /\ call'.issued = "-"
                    /\ call'.config = "-"]_vars

C15_Witness ==
    /\ ~alive
    /\ call.token_before # {}
    /\ cccd = "Notify"

\* A call starts in this step.
CallStarts == call.pc = "returned" /\ <<call, prev>>' # <<call, prev>>

\* C18: when notify_token is Some it names a handler that is registered
\* with the platform (a failed removal leaves the handler registered), so
\* every token passed to the removal names a handler registered then:
\* none is passed after a removal with it has succeeded.
C18_TokenNamesRegisteredHandler ==
    /\ [](alive /\ notify_token # {} =>
             \E h \in handlers : notify_token = {h.token})
    /\ [][(CallStarts /\ call'.remove # "-") =>
             \E h \in handlers : call'.token_before = {h.token}]_vars

C18_Witness ==
    /\ Returned("unsubscribe")
    /\ call.remove = "Err"
    /\ prev.op = "unsubscribe"
    /\ \E h \in handlers : notify_token = {h.token}

\* C19: when the platform rejects the registration of the handler in
\* subscribe, subscribe returns Err, notify_token keeps the value it had
\* before the call, and no descriptor write is issued.
C19_RejectedRegistration ==
    (call.op = "subscribe" /\ call.register = "Err") =>
        /\ Returned("subscribe")
        /\ call.result = "Err"
        /\ notify_token = call.token_before
        /\ call.issued = "-"
        /\ call.config = "-"

C19_Witness ==
    /\ call.op = "subscribe"
    /\ call.register = "Err"
    /\ call.token_before # {}

\* C20: write_value and read_value, returning Ok or Err, leave
\* notify_token, the registered handlers and the peer's configuration as
\* they are; a step that changes one of them belongs to subscribe,
\* unsubscribe or drop.
C20_ReadWriteFrame ==
    [][/\ call'.op \in {"write_value", "read_value"} =>
              UNCHANGED <<notify_token, handlers, cccd>>
       /\ <<notify_token, handlers, cccd>>' # <<notify_token, handlers, cccd>> =>
              call'.op \in {"subscribe", "unsubscribe", "drop"}]_vars

C20_Witness ==
    /\ Returned("write_value")
    /\ call.result = "Err"
    /\ notify_token # {}
    /\ cccd = "Notify"

\* C17: a call of write_value, read_value, subscribe or unsubscribe issues
\* at most one asynchronous operation and waits on it alone: when every
\* operation issued completes, every call returns; and a suspended call
\* is returned by nothing but the completion of the operation it issued
\* (there is no timeout and no cancellation).
C17_CallsReturnWhenPlatformCompletes ==
    /\ (call.pc = "awaiting") ~> (call.pc = "returned")
    /\ [][call.pc = "awaiting" =>
            \/ call' = call
            \/ /\ call'.pc = "returned"
               /\ call'.op = call.op
               /\ call'.issued = call.issued
               /\ call.issued \in {"write", "read", "cccd"}
               /\ \/ call'.status \in GattCommunicationStatus
                  \/ call'.result = "Err"]_vars
    /\ [][call'.issued # call.issued => CallStarts]_vars

C17_Witness ==
    /\ Awaiting("read_value")
    /\ prev.op = "unsubscribe"

\* C16: subscribe, unsubscribe and drop on one client exclude each other:
\* with several threads calling them at once, no thread is inside one of
\* them while another thread is inside any call on the client, so the
\* steps on notify_token of two calls never interleave: between the
\* registration and the store of subscribe, and between the removal and
\* the clearing of unsubscribe, no other thread has touched the slot.
C16_MutualExclusion ==
    \A t \in Threads :
        /\ (Inside(t) /\ threads[t].op \in MutOps) =>
               \A u \in Threads \ {t} : ~Inside(u)
        /\ threads[t].pc = "clear" => notify_token = threads[t].token
        /\ threads[t].pc = "store" =>
               /\ [token |-> next_token - 1, cb |-> threads[t].cb] \in handlers
               /\ threads[t].token = {next_token - 1}

C16_Witness ==
    \E t, u \in Threads :
        /\ threads[t].op = "unsubscribe" /\ threads[t].pc = "clear"
        /\ threads[t].token # {}
        /\ threads[u].op = "subscribe" /\ threads[u].pc = "calling"
====
